---- MODULE Spec2Model ----
(***************************************************************************)
(* The retail data-quality pipeline.  The cleaning stage: the five         *)
(* per-table cleaners (clean_regions, clean_products, clean_stores,        *)
(* clean_customers, clean_orders) and the referential filter of            *)
(* run_cleaning, which writes the cleaned tables.  The validation stage:   *)
(* load_table and the checks of run_validation.  The loader:               *)
(* load_to_db.main.  run_pipeline runs the three in turn.                  *)
(*                                                                         *)
(* A text value is a sequence of one-character strings.  A cell of a       *)
(* DataFrame is a record [t, n, s]: t = "str" (text s), t = "num" (number  *)
(* n) or t = "nan" (the missing marker NaN).  A DataFrame is a sequence of *)
(* rows; a row is a record of cells plus idx, its index label.             *)
(***************************************************************************)
EXTENDS Integers, Sequences, FiniteSets, TLC

VARIABLES pc, regions, products, stores, customers, orders,
          regions_clean, products_clean, stores_clean, customers_clean,
          df, orders_clean,
          files, tables, vi, all_ok, failures, ran,
          max_retries, csv_files, attempt, connected, ensured, pending,
          successful, failed, error, events

vars == <<pc, regions, products, stores, customers, orders,
          regions_clean, products_clean, stores_clean, customers_clean,
          df, orders_clean,
          files, tables, vi, all_ok, failures, ran,
          max_retries, csv_files, attempt, connected, ensured, pending,
          successful, failed, error, events>>

\* the state of run_validation, of load_to_db.main and of run_pipeline
validation_state == <<files, tables, vi, all_ok, failures, ran>>
loader_state == <<max_retries, csv_files, attempt, connected, ensured, pending,
                  successful, failed>>
later == <<validation_state, loader_state, error, events>>

-----------------------------------------------------------------------------
(* Cells *)

Str(s) == [t |-> "str", n |-> 0, s |-> s]
Num(n) == [t |-> "num", n |-> n, s |-> <<>>]
NaN == [t |-> "nan", n |-> 0, s |-> <<>>]

-----------------------------------------------------------------------------
(* Characters and the str methods the cleaners use *)

DigitChars == <<"0", "1", "2", "3", "4", "5", "6", "7", "8", "9">>
UpperChars == <<"A", "B", "C", "D", "E", "F", "G", "H", "I", "J", "K", "L", "M",
                "N", "O", "P", "Q", "R", "S", "T", "U", "V", "W", "X", "Y", "Z">>
LowerChars == <<"a", "b", "c", "d", "e", "f", "g", "h", "i", "j", "k", "l", "m",
                "n", "o", "p", "q", "r", "s", "t", "u", "v", "w", "x", "y", "z">>

IsDigit(c) == \E i \in 1..10 : DigitChars[i] = c
DigitVal(c) == (CHOOSE i \in 1..10 : DigitChars[i] = c) - 1
IsUpper(c) == \E i \in 1..26 : UpperChars[i] = c
IsLower(c) == \E i \in 1..26 : LowerChars[i] = c
IsCased(c) == IsUpper(c) \/ IsLower(c)
IsSpace(c) == c \in {" ", "\t", "\n"}

LowerChar(c) == IF IsUpper(c) THEN LowerChars[CHOOSE i \in 1..26 : UpperChars[i] = c] ELSE c
UpperChar(c) == IF IsLower(c) THEN UpperChars[CHOOSE i \in 1..26 : LowerChars[i] = c] ELSE c

\* str.lower()
StrLower(s) == [i \in 1..Len(s) |-> LowerChar(s[i])]

\* str.upper()
StrUpper(s) == [i \in 1..Len(s) |-> UpperChar(s[i])]

\* str.strip(): leading and trailing whitespace removed
StrStrip(s) ==
    LET keep == {i \in 1..Len(s) : ~IsSpace(s[i])}
    IN  IF keep = {} THEN <<>>
        ELSE LET lo == CHOOSE i \in keep : \A j \in keep : i <= j
                 hi == CHOOSE i \in keep : \A j \in keep : j <= i
             IN  SubSeq(s, lo, hi)

\* str.title(): a cased character is upper-cased after an uncased one (or at
\* the start) and lower-cased after a cased one
StrTitle(s) ==
    [i \in 1..Len(s) |->
        IF i = 1 \/ ~IsCased(s[i - 1]) THEN UpperChar(s[i]) ELSE LowerChar(s[i])]

\* str.replace(pat, "", regex=False): every non-overlapping occurrence of pat,
\* scanning left to right, is removed, in one pass
RECURSIVE StrRemove(_, _)
StrRemove(s, pat) ==
    IF Len(s) < Len(pat) THEN s
    ELSE IF SubSeq(s, 1, Len(pat)) = pat
         THEN StrRemove(SubSeq(s, Len(pat) + 1, Len(s)), pat)
         ELSE <<Head(s)>> \o StrRemove(Tail(s), pat)

\* astype(str) of a cell: the missing marker becomes the text "nan"
RECURSIVE IntToStr(_)
IntToStr(n) ==
    IF n < 0 THEN <<"-">> \o IntToStr(0 - n)
    ELSE IF n < 10 THEN <<DigitChars[n + 1]>>
    ELSE IntToStr(n \div 10) \o <<DigitChars[(n % 10) + 1]>>

AsStr(c) ==
    IF c.t = "nan" THEN <<"n", "a", "n">>
    ELSE IF c.t = "num" THEN IntToStr(c.n)
    ELSE c.s

\* int(text) of a run of decimal digits
RECURSIVE StrToInt(_)
StrToInt(s) ==
    IF s = <<>> THEN 0
    ELSE 10 * StrToInt(SubSeq(s, 1, Len(s) - 1)) + DigitVal(s[Len(s)])

\* str.extract(r"(\d+)")[0]: the leftmost maximal run of digits, NaN if none
ExtractDigits(s) ==
    LET ds == {i \in 1..Len(s) : IsDigit(s[i])}
    IN  IF ds = {} THEN NaN
        ELSE LET lo == CHOOSE i \in ds : \A j \in ds : i <= j
                 hi == CHOOSE i \in lo..Len(s) :
                          /\ \A j \in lo..i : IsDigit(s[j])
                          /\ (i = Len(s) \/ ~IsDigit(s[i + 1]))
             IN  Str(SubSeq(s, lo, hi))

\* fillna(v)
FillNa(c, v) == IF c.t = "nan" THEN v ELSE c

\* standardize_id without the round trip through int: leading zeros stay
standardize_id_no_int(c, prefix) ==
    Str(prefix \o <<"-">> \o FillNa(ExtractDigits(AsStr(c)), Str(<<"0">>)).s)

\* prefix + "-" + extract(r"(\d+)").fillna("0").astype(int).astype(str)
standardize_id(c, prefix) ==
    Str(prefix \o <<"-">>
        \o IntToStr(StrToInt(FillNa(ExtractDigits(AsStr(c)), Str(<<"0">>)).s)))

\* pd.to_numeric(errors="coerce") of one cell: an optionally signed run of
\* digits (surrounding whitespace ignored) parses, any other text becomes NaN.
\* Numbers are integers here (prices in whole units).
ParseNumber(s) ==
    LET u == StrStrip(s)
        neg == u # <<>> /\ Head(u) = "-"
        body == IF u # <<>> /\ Head(u) \in {"-", "+"} THEN Tail(u) ELSE u
    IN  IF body # <<>> /\ \A i \in 1..Len(body) : IsDigit(body[i])
        THEN Num(IF neg THEN 0 - StrToInt(body) ELSE StrToInt(body))
        ELSE NaN

to_numeric(c) == IF c.t = "str" THEN ParseNumber(c.s) ELSE c

\* series >= floor, element-wise: False on the missing marker
GreaterEq(c, floor) == c.t = "num" /\ c.n >= floor

\* series.notna()
NotNa(c) == c.t # "nan"

-----------------------------------------------------------------------------
(* DataFrame helpers *)

\* df[mask]: the rows whose mask entry is TRUE, in order, labels kept
BoolIndex(rows, mask) ==
    LET F[i \in 0..Len(rows)] ==
            IF i = 0 THEN <<>>
            ELSE IF mask[i] THEN Append(F[i - 1], rows[i]) ELSE F[i - 1]
    IN  F[Len(rows)]

\* duplicated(keep="first") over a column (or tuple of columns) of key values
duplicated(keys) ==
    [i \in 1..Len(keys) |-> \E j \in 1..(i - 1) : keys[j] = keys[i]]

\* drop_duplicates(subset=..., keep="first")
drop_duplicates(rows, keys) ==
    BoolIndex(rows, [i \in 1..Len(rows) |-> ~duplicated(keys)[i]])

\* reset_index(drop=True): labels become 0, 1, 2, ...
reset_index(rows) == [i \in 1..Len(rows) |-> [rows[i] EXCEPT !.idx = i - 1]]

-----------------------------------------------------------------------------
(* Per-table cleaners *)

\* lower-case, remove the literal "region", trim, title-case
normalize_region_name(c) ==
    Str(StrTitle(StrStrip(StrRemove(StrLower(AsStr(c)), <<"r", "e", "g", "i", "o", "n">>))))

\* astype(str).str.strip().str.title()
strip_title(c) == Str(StrTitle(StrStrip(AsStr(c))))

\* astype(str).str.lower().str.strip()
lower_strip(c) == Str(StrStrip(StrLower(AsStr(c))))

\* .str.lower().str.strip() without astype(str): a missing value stays missing
str_lower_strip(c) == IF c.t = "str" THEN Str(StrStrip(StrLower(c.s))) ELSE NaN

clean_regions(rows) ==
    [i \in 1..Len(rows) |->
        [rows[i] EXCEPT !.region_name = normalize_region_name(@)]]

products_normalized(rows) ==
    [i \in 1..Len(rows) |->
        [rows[i] EXCEPT !.product_name = strip_title(@),
                        !.category = strip_title(@),
                        !.product_code = standardize_id(@, <<"p", "r", "d">>),
                        !.base_price = to_numeric(@)]]

products_filtered(rows) ==
    LET a == BoolIndex(rows, [i \in 1..Len(rows) |-> NotNa(rows[i].base_price)])
    IN  BoolIndex(a, [i \in 1..Len(a) |-> GreaterEq(a[i].base_price, 0)])

clean_products(rows) ==
    LET f == products_filtered(products_normalized(rows))
    IN  reset_index(drop_duplicates(f, [i \in 1..Len(f) |-> f[i].product_code]))

stores_normalized(rows) ==
    [i \in 1..Len(rows) |->
        [rows[i] EXCEPT !.state = Str(StrUpper(StrStrip(AsStr(@)))),
                        !.region_name = normalize_region_name(@),
                        !.store_code = standardize_id(@, <<"s", "t", "o", "r", "e">>),
                        !.city = strip_title(@),
                        !.store_name = strip_title(@),
                        !.square_feet = to_numeric(@)]]

stores_filtered(rows) ==
    LET a == BoolIndex(rows, [i \in 1..Len(rows) |-> NotNa(rows[i].square_feet)])
    IN  BoolIndex(a, [i \in 1..Len(a) |-> GreaterEq(a[i].square_feet, 1)])

\* clean_stores with duplicate keys dropped before the floor is enforced
clean_stores_dedup_first(rows) ==
    LET n == stores_normalized(rows)
    IN  reset_index(stores_filtered(drop_duplicates(n, [i \in 1..Len(n) |-> n[i].store_code])))

clean_stores(rows) ==
    LET f == stores_filtered(stores_normalized(rows))
    IN  reset_index(drop_duplicates(f, [i \in 1..Len(f) |-> f[i].store_code]))

clean_customers(rows) ==
    LET n == [i \in 1..Len(rows) |->
                [rows[i] EXCEPT !.customer_code = standardize_id(@, <<"c", "u", "s", "t">>),
                                !.customer_segment = str_lower_strip(@)]]
    IN  reset_index(drop_duplicates(n, [i \in 1..Len(n) |-> n[i].customer_code]))

-----------------------------------------------------------------------------
(* clean_orders, in its three stages *)

orders_normalized(rows) ==
    [i \in 1..Len(rows) |->
        [rows[i] EXCEPT !.order_status = lower_strip(@),
                        !.order_type = lower_strip(@),
                        !.order_code = standardize_id(@, <<"o", "r", "d">>),
                        !.customer_code = standardize_id(@, <<"c", "u", "s", "t">>),
                        !.store_code = standardize_id(@, <<"s", "t", "o", "r", "e">>),
                        !.product_code = standardize_id(@, <<"p", "r", "d">>),
                        !.line_number = to_numeric(@),
                        !.quantity = to_numeric(@),
                        !.unit_price = to_numeric(@),
                        !.unit_cost = to_numeric(@)]]

orders_filtered(rows) ==
    LET a == BoolIndex(rows, [i \in 1..Len(rows) |-> NotNa(rows[i].unit_cost)])
        b == BoolIndex(a, [i \in 1..Len(a) |-> GreaterEq(a[i].quantity, 0)])
        c == BoolIndex(b, [i \in 1..Len(b) |-> GreaterEq(b[i].unit_price, 0)])
    IN  BoolIndex(c, [i \in 1..Len(c) |-> GreaterEq(c[i].unit_cost, 0)])

\* int(order_nums.max()) if not order_nums.empty else 0
max_order_num(rows) ==
    LET order_nums == [i \in 1..Len(rows) |->
            StrToInt(FillNa(ExtractDigits(AsStr(rows[i].order_code)), Str(<<"0">>)).s)]
    IN  IF Len(rows) = 0 THEN 0
        ELSE CHOOSE m \in {order_nums[i] : i \in 1..Len(rows)} :
                \A i \in 1..Len(rows) : order_nums[i] <= m

\* df.duplicated(subset=["order_code", "line_number"], keep="first")
dup_mask(rows) ==
    duplicated([i \in 1..Len(rows) |-> <<rows[i].order_code, rows[i].line_number>>])

\* df.index[dup_mask]: the labels of the flagged rows, in table order
dup_indices(rows) ==
    LET m == dup_mask(rows)
        F[i \in 0..Len(rows)] ==
            IF i = 0 THEN <<>>
            ELSE IF m[i] THEN Append(F[i - 1], rows[i].idx) ELSE F[i - 1]
    IN  F[Len(rows)]

\* orders_renumbered with the offsets counted from 0 (enumerate without start=1)
orders_renumbered_from0(rows) ==
    LET mx == max_order_num(rows)
        di == dup_indices(rows)
        offs(r) == {k \in 1..Len(di) : di[k] = r.idx}
        last(S) == CHOOSE k \in S : \A j \in S : j <= k
    IN  [i \in 1..Len(rows) |->
            IF offs(rows[i]) = {} THEN rows[i]
            ELSE [rows[i] EXCEPT !.order_code =
                     Str(<<"o", "r", "d", "-">> \o IntToStr(mx + last(offs(rows[i])) - 1))]]

\* orders_renumbered with the offset counted within each colliding pair
orders_renumbered_per_pair(rows) ==
    LET mx == max_order_num(rows)
        m == dup_mask(rows)
        nth(i) == Cardinality({j \in 1..i : m[j] /\ rows[j].order_code = rows[i].order_code
                                              /\ rows[j].line_number = rows[i].line_number})
    IN  [i \in 1..Len(rows) |->
            IF ~m[i] THEN rows[i]
            ELSE [rows[i] EXCEPT !.order_code =
                     Str(<<"o", "r", "d", "-">> \o IntToStr(mx + nth(i)))]]

\* orders_renumbered resolving a collision by dropping the later rows
orders_renumbered_drop(rows) ==
    drop_duplicates(rows, [i \in 1..Len(rows) |-> <<rows[i].order_code, rows[i].line_number>>])

\* for offset, idx in enumerate(dup_indices, start=1):
\*     df.at[idx, "order_code"] = f"ord-{max_order_num + offset}"
orders_renumbered(rows) ==
    LET mx == max_order_num(rows)
        di == dup_indices(rows)
        offs(r) == {k \in 1..Len(di) : di[k] = r.idx}
        last(S) == CHOOSE k \in S : \A j \in S : j <= k
    IN  [i \in 1..Len(rows) |->
            IF offs(rows[i]) = {} THEN rows[i]
            ELSE [rows[i] EXCEPT !.order_code =
                     Str(<<"o", "r", "d", "-">> \o IntToStr(mx + last(offs(rows[i]))))]]

clean_orders(rows) == orders_renumbered(orders_filtered(orders_normalized(rows)))

-----------------------------------------------------------------------------
(* The referential filter of run_cleaning *)

valid_codes(rows, col) == {rows[i][col] : i \in 1..Len(rows)}

IsIn(c, S) == c \in S

\* enforce_ri with the customer reference enforced like the other two
enforce_ri_customers(ords, strs, prds) ==
    BoolIndex(ords, [i \in 1..Len(ords) |->
        /\ \/ IsIn(ords[i].store_code, valid_codes(strs, "store_code"))
           \/ ords[i].store_code = Str(<<"s", "t", "o", "r", "e", "-", "0">>)
        /\ \/ IsIn(ords[i].product_code, valid_codes(prds, "product_code"))
           \/ ords[i].product_code = Str(<<"p", "r", "d", "-", "0">>)
        /\ \/ IsIn(ords[i].customer_code, valid_codes(customers_clean, "customer_code"))
           \/ ords[i].customer_code = Str(<<"c", "u", "s", "t", "-", "0">>)])

\* enforce_ri with the store reference only
enforce_ri_stores_only(ords, strs, prds) ==
    BoolIndex(ords, [i \in 1..Len(ords) |->
        \/ IsIn(ords[i].store_code, valid_codes(strs, "store_code"))
        \/ ords[i].store_code = Str(<<"s", "t", "o", "r", "e", "-", "0">>)])

enforce_ri(ords, strs, prds) ==
    BoolIndex(ords, [i \in 1..Len(ords) |->
        /\ \/ IsIn(ords[i].store_code, valid_codes(strs, "store_code"))
           \/ ords[i].store_code = Str(<<"s", "t", "o", "r", "e", "-", "0">>)
        /\ \/ IsIn(ords[i].product_code, valid_codes(prds, "product_code"))
           \/ ords[i].product_code = Str(<<"p", "r", "d", "-", "0">>)])

-----------------------------------------------------------------------------
(* The Schema Validator's minimum-value check *)

\* SCHEMAS["orders"]["min_values"]
OrdersMinValues ==
    {<<"line_number", 1>>, <<"quantity", 0>>, <<"unit_price", 0>>, <<"unit_cost", 0>>}

\* validate_min_values: fails when a non-missing value is below its floor
validate_min_values(rows, mins) ==
    \A m \in mins :
        LET bad == {i \in 1..Len(rows) : NotNa(rows[i][m[1]]) /\ ~GreaterEq(rows[i][m[1]], m[2])}
        IN  bad = {}

-----------------------------------------------------------------------------
(* The Schema Validator (validation.py).  A persisted table is what to_csv   *)
(* leaves on disk: its header and, per row, the text of each cell.  A loaded *)
(* table is what load_table returns: the columns, their dtypes and the rows. *)
(* The cells of the timestamp columns and of email and loyalty_id are not    *)
(* carried, as in the cleaners above: those columns have a name and a dtype  *)
(* only, and hold no missing value.                                          *)

\* the columns whose cells are carried
Carried ==
    [regions |-> {"region_code", "region_name", "active_flag"},
     products |-> {"product_code", "product_name", "category", "base_price", "active_flag"},
     stores |-> {"store_code", "store_name", "city", "state", "region_name", "square_feet"},
     customers |-> {"customer_code", "customer_segment"},
     orders |-> {"order_code", "store_code", "customer_code", "order_type", "order_status",
                 "line_number", "product_code", "quantity", "unit_price", "unit_cost"}]

SCHEMAS ==
    [regions |->
        [required_columns |-> {"region_code", "region_name", "active_flag"},
         allow_nulls |-> {},
         strings |-> {"region_code", "region_name", "active_flag"},
         ints |-> {}, floats |-> {}, datetimes |-> {},
         unique_keys |-> <<<<"region_code">>, <<"region_name">>>>,
         allowed_values |-> {<<"active_flag", {<<"Y">>, <<"N">>}>>},
         min_values |-> {}],
     products |->
        [required_columns |-> {"product_code", "product_name", "category", "base_price",
                               "active_flag"},
         allow_nulls |-> {},
         strings |-> {"product_code", "product_name", "category", "active_flag"},
         ints |-> {}, floats |-> {"base_price"}, datetimes |-> {},
         unique_keys |-> <<<<"product_code">>>>,
         allowed_values |-> {<<"active_flag", {<<"Y">>, <<"N">>}>>},
         min_values |-> {<<"base_price", 0>>}],
     stores |->
        [required_columns |-> {"store_code", "store_name", "city", "state", "region_name",
                               "open_date", "close_date", "square_feet"},
         allow_nulls |-> {"close_date"},
         strings |-> {"store_code", "store_name", "city", "state", "region_name"},
         ints |-> {}, floats |-> {"square_feet"}, datetimes |-> {"open_date", "close_date"},
         unique_keys |-> <<<<"store_code">>>>,
         allowed_values |-> {},
         min_values |-> {<<"square_feet", 1>>}],
     customers |->
        [required_columns |-> {"customer_code", "signup_date", "customer_segment", "email",
                               "loyalty_id"},
         allow_nulls |-> {"loyalty_id", "email"},
         strings |-> {"customer_code", "customer_segment", "email", "loyalty_id"},
         ints |-> {}, floats |-> {}, datetimes |-> {"signup_date"},
         unique_keys |-> <<<<"customer_code">>>>,
         allowed_values |-> {},
         min_values |-> {}],
     orders |->
        [required_columns |-> {"order_code", "order_ts", "delivery_ts", "store_code",
                               "customer_code", "order_type", "order_status", "line_number",
                               "product_code", "quantity", "unit_price", "unit_cost"},
         allow_nulls |-> {"delivery_ts"},
         strings |-> {"order_code", "store_code", "customer_code", "order_type",
                      "order_status", "product_code"},
         ints |-> {"line_number", "quantity"},
         floats |-> {"unit_price", "unit_cost"},
         datetimes |-> {"order_ts", "delivery_ts"},
         unique_keys |-> <<<<"order_code", "line_number">>>>,
         allowed_values |-> {},
         min_values |-> OrdersMinValues]]

\* DataFrame.to_csv(index=False), one cell: a missing value is written as the
\* empty field, a number in decimal, a text as it is
CsvText(c) ==
    IF c.t = "nan" THEN <<>>
    ELSE IF c.t = "num" THEN IntToStr(c.n)
    ELSE c.s

\* to_csv(index=False) of a table with the given columns: the index is not
\* written
to_csv(cols, rows) ==
    [cols |-> cols,
     rows |-> [i \in 1..Len(rows) |->
                 [c \in (DOMAIN rows[i] \ {"idx"}) \cap cols |-> CsvText(rows[i][c])]]]

\* the texts pd.read_csv reads as a missing value
NaValues ==
    {<<>>,
     <<"#", "N", "/", "A">>,
     <<"#", "N", "/", "A", " ", "N", "/", "A">>,
     <<"#", "N", "A">>,
     <<"-", "1", ".", "#", "I", "N", "D">>,
     <<"-", "1", ".", "#", "Q", "N", "A", "N">>,
     <<"-", "N", "a", "N">>,
     <<"-", "n", "a", "n">>,
     <<"1", ".", "#", "I", "N", "D">>,
     <<"1", ".", "#", "Q", "N", "A", "N">>,
     <<"<", "N", "A", ">">>,
     <<"N", "/", "A">>,
     <<"N", "A">>,
     <<"N", "U", "L", "L">>,
     <<"N", "a", "N">>,
     <<"N", "o", "n", "e">>,
     <<"n", "/", "a">>,
     <<"n", "a", "n">>,
     <<"n", "u", "l", "l">>}

\* pd.read_csv: the dtype inferred for a column of texts
read_dtype(frows, col) ==
    LET present == {i \in 1..Len(frows) : frows[i][col] \notin NaValues}
    IN  IF Len(frows) = 0 THEN "object"
        ELSE IF \A i \in present : ParseNumber(frows[i][col]).t = "num"
             THEN IF present = 1..Len(frows) THEN "int64" ELSE "float64"
             ELSE "object"

\* pd.read_csv: one cell of a column of the given dtype
read_cell(text, dtype) ==
    IF text \in NaValues THEN NaN
    ELSE IF dtype = "object" THEN Str(text)
    ELSE ParseNumber(text)

\* astype("string") of a cell read with the given dtype
as_string(c, dtype) ==
    IF c.t # "num" THEN c
    ELSE IF dtype = "float64" THEN Str(IntToStr(c.n) \o <<".", "0">>)
    ELSE Str(IntToStr(c.n))

\* load_table: read_csv, then the coercions the schema declares
load_table(name, file) ==
    LET schema == SCHEMAS[name]
        carried == file.cols \cap Carried[name]
        read(c) == read_dtype(file.rows, c)
        dtype(c) ==
            IF c \in schema.datetimes THEN "datetime64"
            ELSE IF c \in schema.ints THEN "Int64"
            ELSE IF c \in schema.floats
                 THEN IF c \in carried /\ read(c) = "int64" THEN "int64" ELSE "float64"
            ELSE IF c \in schema.strings THEN "string"
            ELSE IF c \in carried THEN read(c) ELSE "object"
        cell(i, c) ==
            LET v == read_cell(file.rows[i][c], read(c))
            IN  IF c \in schema.ints \cup schema.floats THEN to_numeric(v)
                ELSE IF c \in schema.strings THEN as_string(v, read(c))
                ELSE v
    IN  [cols |-> file.cols,
         dtypes |-> [c \in file.cols |-> dtype(c)],
         rows |-> [i \in 1..Len(file.rows) |->
                     [c \in carried \cup {"idx"} |->
                         IF c = "idx" THEN i - 1 ELSE cell(i, c)]]]

\* a line printed by _fail: the table, the check and the columns it names
Failure(name, check, cols) == [table |-> name, check |-> check, cols |-> cols]

\* validate_schema
schema_failures(name, t) ==
    IF SCHEMAS[name].required_columns \ t.cols # {}
    THEN {Failure(name, "schema", <<>>)}
    ELSE {}
validate_schema(name, t) == schema_failures(name, t) = {}

\* validate_nulls
nulls_failures(name, t) ==
    {Failure(name, "nulls", <<c>>) :
        c \in {c \in (SCHEMAS[name].required_columns \cap t.cols \cap Carried[name])
                      \ SCHEMAS[name].allow_nulls :
                  \E i \in 1..Len(t.rows) : ~NotNa(t.rows[i][c])}}
validate_nulls(name, t) == nulls_failures(name, t) = {}

\* validate_dtypes
dtypes_failures(name, t) ==
    LET schema == SCHEMAS[name]
        wrong(c) ==
            \/ c \in schema.strings /\ t.dtypes[c] # "string"
            \/ c \in schema.ints /\ t.dtypes[c] \notin {"Int64", "int64"}
            \/ c \in schema.floats /\ t.dtypes[c] \notin {"float64", "Int64", "int64"}
            \/ c \in schema.datetimes /\ t.dtypes[c] # "datetime64"
    IN  {Failure(name, "dtypes", <<c>>) : c \in {c \in t.cols : wrong(c)}}
validate_dtypes(name, t) == dtypes_failures(name, t) = {}

\* validate_allowed_values
allowed_failures(name, t) ==
    {Failure(name, "allowed_values", <<a[1]>>) :
        a \in {a \in SCHEMAS[name].allowed_values :
                  /\ a[1] \in t.cols
                  /\ \E i \in 1..Len(t.rows) :
                        /\ NotNa(t.rows[i][a[1]])
                        /\ t.rows[i][a[1]] \notin {Str(v) : v \in a[2]}}}
validate_allowed_values(name, t) == allowed_failures(name, t) = {}

\* validate_min_values over the columns the table has
min_failures(name, t) ==
    {Failure(name, "min_values", <<m[1]>>) :
        m \in {m \in SCHEMAS[name].min_values :
                  m[1] \in t.cols /\ ~validate_min_values(t.rows, {m})}}
validate_min(name, t) == min_failures(name, t) = {}

\* df.duplicated(subset=cols, keep=False): the rows that share their values
\* in the columns of the key with another row
duplicated_all(rows, key) ==
    {i \in 1..Len(rows) :
        \E j \in 1..Len(rows) :
            j # i /\ \A k \in 1..Len(key) : rows[j][key[k]] = rows[i][key[k]]}

\* validate_uniqueness leaving its loop at the first key that has duplicates
uniqueness_failures_first(name, t) ==
    LET keys == SCHEMAS[name].unique_keys
        bad == {n \in 1..Len(keys) :
                  /\ \A k \in 1..Len(keys[n]) : keys[n][k] \in t.cols
                  /\ duplicated_all(t.rows, keys[n]) # {}}
    IN  {Failure(name, "unique", keys[n]) : n \in {n \in bad : \A m \in bad : n <= m}}

\* validate_uniqueness
uniqueness_failures(name, t) ==
    LET keys == SCHEMAS[name].unique_keys
    IN  {Failure(name, "unique", keys[n]) :
            n \in {n \in 1..Len(keys) :
                      /\ \A k \in 1..Len(keys[n]) : keys[n][k] \in t.cols
                      /\ duplicated_all(t.rows, keys[n]) # {}}}
validate_uniqueness(name, t) == uniqueness_failures(name, t) = {}

\* the four relationships of validate_referential_integrity, in its order
Relationships ==
    <<[child |-> "orders", col |-> "store_code", parent |-> "stores",
       sentinel |-> {Str(<<"s", "t", "o", "r", "e", "-", "0">>)}],
      [child |-> "orders", col |-> "customer_code", parent |-> "customers",
       sentinel |-> {Str(<<"c", "u", "s", "t", "-", "0">>)}],
      [child |-> "orders", col |-> "product_code", parent |-> "products",
       sentinel |-> {Str(<<"p", "r", "d", "-", "0">>)}],
      [child |-> "stores", col |-> "region_name", parent |-> "regions",
       sentinel |-> {}]>>

\* the relationship without the exemption of the sentinel
missing_values_no_sentinel(tabs, r) ==
    {v \in valid_codes(tabs[r.child].rows, r.col) :
        NotNa(v) /\ ~IsIn(v, valid_codes(tabs[r.parent].rows, r.col))}

\* child.loc[~child[col].isin(parent[col]) & (child[col] != sentinel), col]
\* .dropna().unique()
missing_values(tabs, r) ==
    {v \in valid_codes(tabs[r.child].rows, r.col) :
        /\ NotNa(v)
        /\ ~IsIn(v, valid_codes(tabs[r.parent].rows, r.col))
        /\ v \notin r.sentinel}

\* both columns of the relationship can be read; a KeyError otherwise
readable(tabs, r) == r.col \in tabs[r.child].cols /\ r.col \in tabs[r.parent].cols

\* the relationships reached before any KeyError
evaluated(tabs) ==
    {n \in 1..Len(Relationships) : \A k \in 1..n : readable(tabs, Relationships[k])}

fk_raises(tabs) == evaluated(tabs) # 1..Len(Relationships)

fk_failures(tabs) ==
    {Failure("FK", Relationships[n].child, <<Relationships[n].col>>) :
        n \in {n \in evaluated(tabs) : missing_values(tabs, Relationships[n]) # {}}}

\* validate_referential_integrity, when it returns
validate_referential_integrity(tabs) == fk_failures(tabs) = {}

-----------------------------------------------------------------------------
(* Raw inputs.  The rows below are the raw extracts the cleaners are run on: *)
(* keys in several spellings, numbers that are negative, zero, missing or    *)
(* unparseable, and text with stray case and whitespace.                     *)

MaxOrders == 4
MaxFieldOrders == 2
MaxDimRows == 3
MaxRefOrders == 2

\* every table of at most n rows over the row set S, labelled 0, 1, 2, ... as
\* pd.read_csv labels them
Tables(S, n) == {reset_index(t) : t \in UNION {[1..k -> S] : k \in 0..n}}

T_bad == <<"b", "a", "d">>
T_abc == <<"a", "b", "c">>
T_ord5 == <<"o", "r", "d", "-", "5">>
T_ORD005 == <<"O", "R", "D", "0", "0", "5">>
T_6 == <<"6">>
T_999 == <<"9", "9", "9">>
T_S1 == <<"S", "1">>
T_P1 == <<"P", "1">>
T_CUST007 == <<"C", "U", "S", "T", "0", "0", "7">>
T_cust007 == <<"c", "u", "s", "t", "-", "0", "0", "7">>
T_007 == <<"0", "0", "7">>
T_c12x34 == <<"c", "1", "2", "x", "3", "4">>
T_Shipped == <<" ", "S", "h", "i", "p", "p", "e", "d">>
T_online == <<"O", "N", "L", "I", "N", "E", " ">>

Order(code, line, qty, price, cost, store, cust, prod) ==
    [idx |-> 0, order_code |-> code, line_number |-> line, quantity |-> qty,
     unit_price |-> price, unit_cost |-> cost, store_code |-> store,
     customer_code |-> cust, product_code |-> prod,
     order_status |-> Str(T_Shipped), order_type |-> Str(T_online)]

\* a well-formed order line with the given key
GoodOrder(code, line) ==
    Order(code, line, Num(2), Num(3), Num(1), Str(T_S1), Str(T_CUST007), Str(T_P1))

\* order lines whose keys collide, alone or after canonicalization; the last
\* one has the largest order number and is dropped for its missing cost
OrderRows ==
    {GoodOrder(Str(T_ord5), Num(1)),
     GoodOrder(Str(T_ORD005), Num(1)),
     GoodOrder(Str(T_ord5), Num(2)),
     GoodOrder(Str(T_6), Num(1)),
     GoodOrder(Str(T_abc), Num(1)),
     GoodOrder(Str(T_ord5), NaN),
     Order(Str(T_999), Num(1), Num(2), Num(3), NaN, Str(T_S1), Str(T_CUST007), Str(T_P1))}

\* order lines that differ in their numbers and in the spelling of their keys
FieldRows ==
    {GoodOrder(Str(T_ord5), Num(1)), GoodOrder(Str(T_ord5), Num(0))}
    \cup
    {Order(Str(T_6), Num(2), q, p, c, Str(T_S1), Str(T_CUST007), Str(T_P1)) :
        <<q, p, c>> \in {<<Num(2), Num(3), NaN>>, <<Num(2), Num(3), Str(T_bad)>>,
                         <<Num(2), Num(3), Num(-1)>>, <<NaN, Num(3), Num(1)>>,
                         <<Num(-1), Num(3), Num(1)>>, <<Num(2), Str(T_bad), Num(0)>>,
                         <<Num(0), Num(-1), Num(1)>>}}
    \cup
    {Order(k[1], Num(3), Num(2), Num(3), Num(1), k[2], k[3], k[4]) :
        k \in {<<Str(T_CUST007), Str(T_abc), Str(T_cust007), NaN>>,
               <<Str(T_007), NaN, Str(T_007), Str(T_c12x34)>>,
               <<NaN, Str(T_c12x34), Str(T_abc), Str(T_007)>>}}

T_R1 == <<"R", "1">>
T_R2 == <<"R", "2">>
T_Y == <<"Y">>
T_NorthRegion == <<"N", "o", "r", "t", "h", " ", "R", "e", "g", "i", "o", "n", " ">>
T_north == <<"n", "o", "r", "t", "h">>
T_SOUTH == <<"S", "O", "U", "T", "H", " ", "R", "E", "G", "I", "O", "N">>
T_regregionion == <<"r", "e", "g", "r", "e", "g", "i", "o", "n", "i", "o", "n">>
T_PRD001 == <<"P", "R", "D", "0", "0", "1">>
T_prd1 == <<"p", "r", "d", "-", "1">>
T_2 == <<"2">>
T_widget == <<" ", "w", "i", "d", "g", "e", "t">>
T_GADGET == <<"G", "A", "D", "G", "E", "T">>
T_toys == <<"t", "o", "y", "s">>
T_store01 == <<"s", "t", "o", "r", "e", "_", "0", "1">>
T_mainst == <<"m", "a", "i", "n", " ", "s", "t">>
T_austin == <<"a", "u", "s", "t", "i", "n", " ">>
T_tx == <<" ", "t", "x">>
T_Retail == <<" ", "R", "e", "t", "a", "i", "l">>
T_WHOLESALE == <<"W", "H", "O", "L", "E", "S", "A", "L", "E">>
T_store0 == <<"s", "t", "o", "r", "e", "-", "0">>
T_prd0 == <<"p", "r", "d", "-", "0">>
T_cust0 == <<"c", "u", "s", "t", "-", "0">>
T_store999 == <<"s", "t", "o", "r", "e", "-", "9", "9", "9">>
T_cust7 == <<"c", "u", "s", "t", "-", "7">>
T_store1 == <<"s", "t", "o", "r", "e", "-", "1">>
T_North == <<"N", "o", "r", "t", "h">>
T_South == <<"S", "o", "u", "t", "h">>
T_West == <<"W", "e", "s", "t">>
T_retail == <<"r", "e", "t", "a", "i", "l">>

Region(code, name) ==
    [idx |-> 0, region_code |-> Str(code), region_name |-> name, active_flag |-> Str(T_Y)]

Product(code, name, price) ==
    [idx |-> 0, product_code |-> code, product_name |-> Str(name),
     category |-> Str(T_toys), base_price |-> price, active_flag |-> Str(T_Y)]

Store(code, region, sqft) ==
    [idx |-> 0, store_code |-> code, store_name |-> Str(T_mainst), city |-> Str(T_austin),
     state |-> Str(T_tx), region_name |-> region, square_feet |-> sqft]

Customer(code, segment) ==
    [idx |-> 0, customer_code |-> code, customer_segment |-> segment]

RegionRows ==
    {Region(T_R1, Str(T_NorthRegion)), Region(T_R1, Str(T_north)),
     Region(T_R2, Str(T_SOUTH)), Region(T_R2, Str(T_regregionion)),
     Region(T_R2, NaN), Region(T_R1, Str(T_SOUTH))}

ProductRows ==
    {Product(Str(T_PRD001), T_widget, Num(-5)), Product(Str(T_prd1), T_GADGET, Num(10)),
     Product(Str(T_P1), T_widget, Num(0)), Product(Str(T_2), T_GADGET, Num(10)),
     Product(Str(T_PRD001), T_GADGET, NaN), Product(Str(T_prd1), T_widget, Str(T_bad)),
     Product(Str(T_abc), T_widget, Num(5)), Product(Str(T_2), T_widget, Num(-1))}

StoreRows ==
    {Store(Str(T_S1), Str(T_NorthRegion), Num(0)), Store(Str(T_store01), Str(T_north), Num(1)),
     Store(Str(T_S1), Str(T_SOUTH), Num(500)), Store(Str(T_999), Str(T_north), Num(500)),
     Store(Str(T_S1), Str(T_north), NaN), Store(Str(T_999), Str(T_SOUTH), Str(T_bad)),
     Store(NaN, Str(T_regregionion), Num(2)), Store(Str(T_999), Str(T_north), Num(-3))}

CustomerRows ==
    {Customer(Str(T_CUST007), Str(T_Retail)), Customer(Str(T_cust007), Str(T_WHOLESALE)),
     Customer(Str(T_007), NaN), Customer(Str(T_abc), Str(T_Retail)),
     Customer(NaN, Str(T_WHOLESALE)), Customer(Str(T_c12x34), Str(T_Retail))}

\* A customer_segment column without any text is read as a column of floats,
\* which has no .str accessor: clean_customers raises on it and run_cleaning
\* stops there.  The extracts are those the run gets past.
HasTextSegment(t) == t = <<>> \/ \E i \in 1..Len(t) : t[i].customer_segment.t = "str"

\* the extracts used where a table is not the one under study
DefaultRegions == reset_index(<<Region(T_R1, Str(T_NorthRegion)), Region(T_R2, Str(T_SOUTH))>>)
DefaultProducts == reset_index(<<Product(Str(T_P1), T_widget, Num(10))>>)
DefaultStores == reset_index(<<Store(Str(T_S1), Str(T_NorthRegion), Num(500))>>)
DefaultCustomers == reset_index(<<Customer(Str(T_CUST007), Str(T_Retail))>>)
DefaultOrders ==
    reset_index(<<GoodOrder(Str(T_ord5), Num(1)), GoodOrder(Str(T_ord5), Num(1))>>)

\* order lines that differ in what they refer to
RefOrderRows ==
    {Order(Str(T_ord5), Num(1), Num(2), Num(3), Num(1), st, cu, pr) :
        st \in {Str(T_S1), Str(T_999), Str(T_abc)},
        cu \in {Str(T_CUST007), Str(T_c12x34)},
        pr \in {Str(T_P1), Str(T_2), NaN}}

RefStoreTables ==
    {<<>>, DefaultStores,
     reset_index(<<Store(Str(T_999), Str(T_north), Num(500))>>),
     reset_index(<<Store(Str(T_S1), Str(T_north), Num(0)), Store(Str(T_abc), Str(T_north), Num(9))>>)}

RefProductTables ==
    {<<>>, DefaultProducts,
     reset_index(<<Product(Str(T_2), T_GADGET, Num(10)), Product(Str(T_P1), T_widget, Num(-5))>>)}

-----------------------------------------------------------------------------
(* The state before run_validation and load_to_db.main have started *)

\* TABLE_PATHS: the five cleaned tables, in the order run_validation loads them
TableNames == <<"regions", "products", "stores", "customers", "orders">>

\* load_to_db.MAX_RETRIES when the environment does not set it
MAX_RETRIES == 3

\* run_validation has loaded nothing and run no check
ValidationIdle ==
    /\ tables = <<>>
    /\ vi = 0
    /\ all_ok = TRUE
    /\ failures = {}
    /\ ran = {}

\* main has made no connectivity attempt and loaded no file
LoaderIdle ==
    /\ attempt = 0
    /\ connected = FALSE
    /\ ensured = FALSE
    /\ pending = 0
    /\ successful = 0
    /\ failed = 0

-----------------------------------------------------------------------------
(* run_cleaning: the cleaners in the order the code calls them, then the    *)
(* referential filter.  clean_orders is followed through its three stages:  *)
(* df is its local table.                                                    *)

Blank ==
    /\ pc = "clean_regions"
    /\ regions_clean = <<>>
    /\ products_clean = <<>>
    /\ stores_clean = <<>>
    /\ customers_clean = <<>>
    /\ df = <<>>
    /\ orders_clean = <<>>
    /\ files = <<>>
    /\ ValidationIdle
    /\ max_retries = MAX_RETRIES
    /\ csv_files = Len(TableNames)
    /\ LoaderIdle
    /\ error = "none"
    /\ events = <<>>

\* the extracts differ in the references between orders, stores and products
Init ==
    /\ Blank
    /\ regions = DefaultRegions
    /\ customers = DefaultCustomers
    /\ products \in RefProductTables
    /\ stores \in RefStoreTables
    /\ orders \in Tables(RefOrderRows, MaxRefOrders)

\* the keys of the order extract vary
InitOrders ==
    /\ Blank
    /\ regions = DefaultRegions
    /\ customers = DefaultCustomers
    /\ products = DefaultProducts
    /\ stores = DefaultStores
    /\ orders \in Tables(OrderRows, MaxOrders)

\* the numbers and key spellings of the order extract vary
InitFields ==
    /\ Blank
    /\ regions = DefaultRegions
    /\ customers = DefaultCustomers
    /\ products = DefaultProducts
    /\ stores = DefaultStores
    /\ orders \in Tables(FieldRows, MaxFieldOrders)

\* one dimension extract varies
InitDims ==
    /\ Blank
    /\ orders = DefaultOrders
    /\ \/ /\ regions \in Tables(RegionRows, MaxDimRows)
          /\ products = DefaultProducts /\ stores = DefaultStores
          /\ customers = DefaultCustomers
       \/ /\ products \in Tables(ProductRows, MaxDimRows)
          /\ regions = DefaultRegions /\ stores = DefaultStores
          /\ customers = DefaultCustomers
       \/ /\ stores \in Tables(StoreRows, MaxDimRows)
          /\ regions = DefaultRegions /\ products = DefaultProducts
          /\ customers = DefaultCustomers
       \/ /\ customers \in {t \in Tables(CustomerRows, MaxDimRows) : HasTextSegment(t)}
          /\ regions = DefaultRegions /\ products = DefaultProducts
          /\ stores = DefaultStores

raw == <<regions, products, stores, customers, orders>>

CleanRegions ==
    /\ pc = "clean_regions"
    /\ regions_clean' = clean_regions(regions)
    /\ pc' = "clean_products"
    /\ UNCHANGED <<raw, products_clean, stores_clean, customers_clean, df, orders_clean>>
    /\ UNCHANGED later

CleanProducts ==
    /\ pc = "clean_products"
    /\ products_clean' = clean_products(products)
    /\ pc' = "clean_stores"
    /\ UNCHANGED <<raw, regions_clean, stores_clean, customers_clean, df, orders_clean>>
    /\ UNCHANGED later

CleanStores ==
    /\ pc = "clean_stores"
    /\ stores_clean' = clean_stores(stores)
    /\ pc' = "clean_customers"
    /\ UNCHANGED <<raw, regions_clean, products_clean, customers_clean, df, orders_clean>>
    /\ UNCHANGED later

CleanCustomers ==
    /\ pc = "clean_customers"
    /\ customers_clean' = clean_customers(customers)
    /\ pc' = "clean_orders"
    /\ UNCHANGED <<raw, regions_clean, products_clean, stores_clean, df, orders_clean>>
    /\ UNCHANGED later

\* clean_orders, lines 16-38: text, keys and numbers put in canonical form
OrdersNormalize ==
    /\ pc = "clean_orders"
    /\ df' = orders_normalized(orders)
    /\ pc' = "orders_filter"
    /\ UNCHANGED <<raw, regions_clean, products_clean, stores_clean, customers_clean,
                   orders_clean>>
    /\ UNCHANGED later

\* clean_orders, lines 40-44: invalid rows dropped
OrdersFilter ==
    /\ pc = "orders_filter"
    /\ df' = orders_filtered(df)
    /\ pc' = "orders_renumber"
    /\ UNCHANGED <<raw, regions_clean, products_clean, stores_clean, customers_clean,
                   orders_clean>>
    /\ UNCHANGED later

\* clean_orders, lines 46-64: colliding keys renumbered, the table returned
OrdersRenumber ==
    /\ pc = "orders_renumber"
    /\ orders_clean' = orders_renumbered(df)
    /\ pc' = "enforce_ri"
    /\ UNCHANGED <<raw, regions_clean, products_clean, stores_clean, customers_clean, df>>
    /\ UNCHANGED later

\* run_cleaning, lines 43-55
EnforceRI ==
    /\ pc = "enforce_ri"
    /\ orders_clean' = enforce_ri(orders_clean, stores_clean, products_clean)
    /\ pc' = "write"
    /\ UNCHANGED <<raw, regions_clean, products_clean, stores_clean, customers_clean, df>>
    /\ UNCHANGED later

Next ==
    \/ CleanRegions
    \/ CleanProducts
    \/ CleanStores
    \/ CleanCustomers
    \/ OrdersNormalize
    \/ OrdersFilter
    \/ OrdersRenumber
    \/ EnforceRI

Spec == Init /\ [][Next]_vars
SpecOrders == InitOrders /\ [][Next]_vars
SpecFields == InitFields /\ [][Next]_vars
SpecDims == InitDims /\ [][Next]_vars

-----------------------------------------------------------------------------
(* run_validation: the five persisted tables are loaded, the six checks are  *)
(* run on each table in turn, then the cross-table check, then the verdict.  *)
(* vi is the position of the table under check, failures the lines printed   *)
(* by _fail, ran the calls made so far.                                      *)

\* run_validation, lines 300-304
LoadTables ==
    /\ pc = "run_validation"
    /\ tables' = [name \in DOMAIN files |-> load_table(name, files[name])]
    /\ vi' = 1
    /\ all_ok' = TRUE
    /\ pc' = "validate_schema"
    /\ UNCHANGED <<raw, regions_clean, products_clean, stores_clean, customers_clean,
                   df, orders_clean, files, failures, ran, loader_state, error, events>>

\* run_validation, line 308
ValidateSchema ==
    /\ pc = "validate_schema"
    /\ all_ok' = (all_ok /\ validate_schema(TableNames[vi], tables[TableNames[vi]]))
    /\ failures' = failures \cup schema_failures(TableNames[vi], tables[TableNames[vi]])
    /\ ran' = ran \cup {<<TableNames[vi], "validate_schema">>}
    /\ pc' = "validate_nulls"
    /\ UNCHANGED <<raw, regions_clean, products_clean, stores_clean, customers_clean,
                   df, orders_clean, files, tables, vi, loader_state, error, events>>

\* line 309 written with "and": the call is skipped once a check has failed
ValidateNullsShortCircuit ==
    /\ pc = "validate_nulls"
    /\ all_ok' = (all_ok /\ validate_nulls(TableNames[vi], tables[TableNames[vi]]))
    /\ failures' = IF all_ok
                    THEN failures \cup nulls_failures(TableNames[vi], tables[TableNames[vi]])
                    ELSE failures
    /\ ran' = IF all_ok THEN ran \cup {<<TableNames[vi], "validate_nulls">>} ELSE ran
    /\ pc' = "validate_dtypes"
    /\ UNCHANGED <<raw, regions_clean, products_clean, stores_clean, customers_clean,
                   df, orders_clean, files, tables, vi, loader_state, error, events>>

\* run_validation, line 309
ValidateNulls ==
    /\ pc = "validate_nulls"
    /\ all_ok' = (all_ok /\ validate_nulls(TableNames[vi], tables[TableNames[vi]]))
    /\ failures' = failures \cup nulls_failures(TableNames[vi], tables[TableNames[vi]])
    /\ ran' = ran \cup {<<TableNames[vi], "validate_nulls">>}
    /\ pc' = "validate_dtypes"
    /\ UNCHANGED <<raw, regions_clean, products_clean, stores_clean, customers_clean,
                   df, orders_clean, files, tables, vi, loader_state, error, events>>

\* run_validation, line 310
ValidateDtypes ==
    /\ pc = "validate_dtypes"
    /\ all_ok' = (all_ok /\ validate_dtypes(TableNames[vi], tables[TableNames[vi]]))
    /\ failures' = failures \cup dtypes_failures(TableNames[vi], tables[TableNames[vi]])
    /\ ran' = ran \cup {<<TableNames[vi], "validate_dtypes">>}
    /\ pc' = "validate_allowed_values"
    /\ UNCHANGED <<raw, regions_clean, products_clean, stores_clean, customers_clean,
                   df, orders_clean, files, tables, vi, loader_state, error, events>>

\* run_validation, line 311
ValidateAllowedValues ==
    /\ pc = "validate_allowed_values"
    /\ all_ok' = (all_ok /\ validate_allowed_values(TableNames[vi], tables[TableNames[vi]]))
    /\ failures' = failures \cup allowed_failures(TableNames[vi], tables[TableNames[vi]])
    /\ ran' = ran \cup {<<TableNames[vi], "validate_allowed_values">>}
    /\ pc' = "validate_min_values"
    /\ UNCHANGED <<raw, regions_clean, products_clean, stores_clean, customers_clean,
                   df, orders_clean, files, tables, vi, loader_state, error, events>>

\* run_validation, line 312
ValidateMinValues ==
    /\ pc = "validate_min_values"
    /\ all_ok' = (all_ok /\ validate_min(TableNames[vi], tables[TableNames[vi]]))
    /\ failures' = failures \cup min_failures(TableNames[vi], tables[TableNames[vi]])
    /\ ran' = ran \cup {<<TableNames[vi], "validate_min_values">>}
    /\ pc' = "validate_uniqueness"
    /\ UNCHANGED <<raw, regions_clean, products_clean, stores_clean, customers_clean,
                   df, orders_clean, files, tables, vi, loader_state, error, events>>

\* run_validation, line 313, and the step of the for statement at line 307
ValidateUniqueness ==
    /\ pc = "validate_uniqueness"
    /\ all_ok' = (all_ok /\ validate_uniqueness(TableNames[vi], tables[TableNames[vi]]))
    /\ failures' = failures \cup uniqueness_failures(TableNames[vi], tables[TableNames[vi]])
    /\ ran' = ran \cup {<<TableNames[vi], "validate_uniqueness">>}
    /\ IF vi < Len(TableNames)
         THEN vi' = vi + 1 /\ pc' = "validate_schema"
         ELSE vi' = vi /\ pc' = "validate_referential_integrity"
    /\ UNCHANGED <<raw, regions_clean, products_clean, stores_clean, customers_clean,
                   df, orders_clean, files, tables, loader_state, error, events>>

\* run_validation, line 316: the relationships are evaluated in turn; a
\* column that is not there raises KeyError, which leaves run_validation
ValidateReferentialIntegrity ==
    /\ pc = "validate_referential_integrity"
    /\ failures' = failures \cup fk_failures(tables)
    /\ ran' = ran \cup {<<"FK", "validate_referential_integrity">>}
    /\ IF fk_raises(tables)
         THEN all_ok' = all_ok /\ pc' = "raised" /\ error' = "KeyError"
         ELSE /\ all_ok' = (all_ok /\ validate_referential_integrity(tables))
              /\ pc' = "verdict"
              /\ error' = error
    /\ UNCHANGED <<raw, regions_clean, products_clean, stores_clean, customers_clean,
                   df, orders_clean, files, tables, vi, loader_state, events>>

\* lines 318-321 without the raise: the verdict is printed and the call returns
VerdictNoRaise ==
    /\ pc = "verdict"
    /\ pc' = "validated"
    /\ UNCHANGED <<raw, regions_clean, products_clean, stores_clean, customers_clean,
                   df, orders_clean, validation_state, loader_state, error, events>>

\* run_validation, lines 318-321
Verdict ==
    /\ pc = "verdict"
    /\ IF ~all_ok
         THEN pc' = "raised" /\ error' = "SystemExit"
         ELSE pc' = "validated" /\ error' = error
    /\ UNCHANGED <<raw, regions_clean, products_clean, stores_clean, customers_clean,
                   df, orders_clean, validation_state, loader_state, events>>

NextValidate ==
    \/ LoadTables
    \/ ValidateSchema
    \/ ValidateNulls
    \/ ValidateDtypes
    \/ ValidateAllowedValues
    \/ ValidateMinValues
    \/ ValidateUniqueness
    \/ ValidateReferentialIntegrity
    \/ Verdict

MaxRegionRows == 3
MaxOrderRows == 2

\* tables that pass every check
ValidRegions == reset_index(<<Region(T_R1, Str(T_North)), Region(T_R2, Str(T_South))>>)
ValidProducts == reset_index(<<Product(Str(T_prd1), T_GADGET, Num(10))>>)
ValidStores == reset_index(<<Store(Str(T_store1), Str(T_North), Num(500))>>)
ValidCustomers == reset_index(<<Customer(Str(T_cust7), Str(T_retail))>>)
ValidOrders == reset_index(<<GoodOrder(Str(T_ord5), Num(1)), GoodOrder(Str(T_ord5), Num(2))>>)

\* a persisted table with every required column
Persisted(name, rows) == to_csv(SCHEMAS[name].required_columns, rows)
\* a persisted table without one of them
Without(name, col, rows) == to_csv(SCHEMAS[name].required_columns \ {col}, rows)

\* region rows whose codes and names repeat, one with no name
RegionFileRows ==
    {Region(T_R1, Str(T_North)), Region(T_R1, Str(T_South)),
     Region(T_R2, Str(T_South)), Region(T_R2, NaN)}

RegionFiles ==
    UNION {{Persisted("regions", t), Without("regions", "region_code", t),
            Without("regions", "region_name", t), Without("regions", "active_flag", t)} :
           t \in Tables(RegionFileRows, MaxRegionRows)}

\* order lines that refer to known, unknown, sentinel and missing keys
OrderFileRows ==
    {Order(Str(T_ord5), Num(1), Num(2), Num(3), Num(1),
           Str(T_store1), Str(T_cust7), Str(T_prd1)),
     Order(Str(T_ord5), Num(2), Num(2), Num(3), Num(1),
           Str(T_store0), Str(T_cust0), Str(T_prd0)),
     Order(Str(T_ord5), Num(3), Num(2), Num(3), Num(1),
           Str(T_store999), Str(T_cust7), Str(T_prd1)),
     Order(Str(T_ord5), Num(4), Num(2), Num(3), Num(1),
           Str(T_store1), Str(T_abc), Str(T_prd1)),
     Order(Str(T_ord5), Num(5), Num(2), Num(3), Num(1),
           Str(T_store1), Str(T_cust7), Str(T_abc)),
     Order(Str(T_ord5), Num(6), Num(-2), Num(3), Num(1), NaN, NaN, NaN)}

OrderFiles ==
    {Persisted("orders", t) : t \in Tables(OrderFileRows, MaxOrderRows)}
        \cup {Without("orders", "product_code", ValidOrders),
              Without("orders", "delivery_ts", ValidOrders)}

StoreFiles ==
    {Persisted("stores", ValidStores), Persisted("stores", <<>>),
     Persisted("stores", reset_index(<<Store(Str(T_store1), Str(T_West), Num(0))>>)),
     Persisted("stores", reset_index(<<Store(Str(T_store1), NaN, Num(500)),
                                        Store(Str(T_store1), Str(T_South), Num(500))>>))}

ProductFiles ==
    {Persisted("products", ValidProducts),
     Persisted("products", reset_index(<<Product(Str(T_abc), T_GADGET, Num(-1))>>))}

CustomerFiles ==
    {Persisted("customers", ValidCustomers), Persisted("customers", <<>>)}

\* run_validation run on its own, on the tables it finds persisted
InitValidate ==
    /\ pc = "run_validation"
    /\ regions = <<>>
    /\ products = <<>>
    /\ stores = <<>>
    /\ customers = <<>>
    /\ orders = <<>>
    /\ regions_clean = <<>>
    /\ products_clean = <<>>
    /\ stores_clean = <<>>
    /\ customers_clean = <<>>
    /\ df = <<>>
    /\ orders_clean = <<>>
    /\ \/ \E r \in RegionFiles, o \in {Persisted("orders", ValidOrders),
                                       Persisted("orders", DefaultOrders)} :
             files = [regions |-> r, products |-> Persisted("products", ValidProducts),
                      stores |-> Persisted("stores", ValidStores),
                      customers |-> Persisted("customers", ValidCustomers), orders |-> o]
       \/ \E o \in OrderFiles, s \in StoreFiles, p \in ProductFiles, c \in CustomerFiles :
             files = [regions |-> Persisted("regions", ValidRegions), products |-> p,
                      stores |-> s, customers |-> c, orders |-> o]
    /\ ValidationIdle
    /\ max_retries = MAX_RETRIES
    /\ csv_files = Len(TableNames)
    /\ LoaderIdle
    /\ error = "none"
    /\ events = <<"run_validation">>

SpecValidate == InitValidate /\ [][NextValidate]_vars

-----------------------------------------------------------------------------
(* load_to_db.main: the engine is built, the connectivity check is retried, *)
(* the schema is ensured and every CSV file of the data directory is loaded.*)
(* max_retries is the configured MAX_RETRIES, csv_files the number of files *)
(* the directory holds; whether the database answers is the environment's   *)
(* choice.  attempt counts the connectivity checks made so far.             *)

MaxRetries == 3
MaxCsvFiles == 2

\* main, line 229: build_engine returns, or create_engine raises
BuildEngine ==
    /\ pc = "build_engine"
    /\ \/ pc' = "connect" /\ error' = error
       \/ pc' = "raised" /\ error' = "SQLAlchemyError"
    /\ UNCHANGED <<raw, regions_clean, products_clean, stores_clean, customers_clean,
                   df, orders_clean, validation_state, loader_state, events>>

\* main, lines 233-238: SELECT 1 answers and the loop is left by break
ConnectOk ==
    /\ pc = "connect"
    /\ attempt < max_retries
    /\ attempt' = attempt + 1
    /\ connected' = TRUE
    /\ pc' = "ensure_schema"
    /\ UNCHANGED <<raw, regions_clean, products_clean, stores_clean, customers_clean,
                   df, orders_clean, validation_state, max_retries, csv_files, ensured,
                   pending, successful, failed, error, events>>

\* main, lines 239-245: SQLAlchemyError; retried unless it was the last attempt
ConnectFail ==
    /\ pc = "connect"
    /\ attempt < max_retries
    /\ attempt' = attempt + 1
    /\ IF attempt < max_retries - 1
         THEN pc' = "connect" /\ error' = error
         ELSE pc' = "raised" /\ error' = "SQLAlchemyError"
    /\ UNCHANGED <<raw, regions_clean, products_clean, stores_clean, customers_clean,
                   df, orders_clean, validation_state, max_retries, csv_files, connected,
                   ensured, pending, successful, failed, events>>

\* main, line 233: range(MAX_RETRIES) is exhausted and the for statement ends
ConnectLoopEnd ==
    /\ pc = "connect"
    /\ attempt >= max_retries
    /\ pc' = "ensure_schema"
    /\ UNCHANGED <<raw, regions_clean, products_clean, stores_clean, customers_clean,
                   df, orders_clean, validation_state, loader_state, error, events>>

\* main, line 247: ensure_schema is called; CREATE SCHEMA succeeds or raises
EnsureSchema ==
    /\ pc = "ensure_schema"
    /\ ensured' = TRUE
    /\ \/ pc' = "list_csvs" /\ error' = error
       \/ pc' = "raised" /\ error' = "SQLAlchemyError"
    /\ UNCHANGED <<raw, regions_clean, products_clean, stores_clean, customers_clean,
                   df, orders_clean, validation_state, max_retries, csv_files, attempt,
                   connected, pending, successful, failed, events>>

\* main, line 249 and list_csvs: an empty directory raises RuntimeError
ListCsvs ==
    /\ pc = "list_csvs"
    /\ IF csv_files = 0
         THEN pc' = "raised" /\ error' = "RuntimeError" /\ pending' = pending
         ELSE pc' = "load_csv" /\ error' = error /\ pending' = csv_files
    /\ UNCHANGED <<raw, regions_clean, products_clean, stores_clean, customers_clean,
                   df, orders_clean, validation_state, max_retries, csv_files, attempt,
                   connected, ensured, successful, failed, events>>

\* main, lines 264-275: one file is loaded
LoadCsvOk ==
    /\ pc = "load_csv"
    /\ pending > 0
    /\ pending' = pending - 1
    /\ successful' = successful + 1
    /\ UNCHANGED <<pc, raw, regions_clean, products_clean, stores_clean, customers_clean,
                   df, orders_clean, validation_state, max_retries, csv_files, attempt,
                   connected, ensured, failed, error, events>>

\* main, lines 276-280: the load of one file raises; the next file is tried
LoadCsvFail ==
    /\ pc = "load_csv"
    /\ pending > 0
    /\ pending' = pending - 1
    /\ failed' = failed + 1
    /\ UNCHANGED <<pc, raw, regions_clean, products_clean, stores_clean, customers_clean,
                   df, orders_clean, validation_state, max_retries, csv_files, attempt,
                   connected, ensured, successful, error, events>>

\* main, lines 286-287: the loop over the files has ended
LoadEnd ==
    /\ pc = "load_csv"
    /\ pending = 0
    /\ IF failed > 0
         THEN pc' = "raised" /\ error' = "RuntimeError"
         ELSE pc' = "loaded" /\ error' = error
    /\ UNCHANGED <<raw, regions_clean, products_clean, stores_clean, customers_clean,
                   df, orders_clean, validation_state, loader_state, events>>

NextLoad ==
    \/ BuildEngine
    \/ ConnectOk
    \/ ConnectFail
    \/ ConnectLoopEnd
    \/ EnsureSchema
    \/ ListCsvs
    \/ LoadCsvOk
    \/ LoadCsvFail
    \/ LoadEnd

\* load_to_db.main run on its own, under every configuration
InitLoad ==
    /\ pc = "build_engine"
    /\ regions = DefaultRegions
    /\ products = DefaultProducts
    /\ stores = DefaultStores
    /\ customers = DefaultCustomers
    /\ orders = DefaultOrders
    /\ regions_clean = <<>>
    /\ products_clean = <<>>
    /\ stores_clean = <<>>
    /\ customers_clean = <<>>
    /\ df = <<>>
    /\ orders_clean = <<>>
    /\ files = <<>>
    /\ ValidationIdle
    /\ max_retries \in 0..MaxRetries
    /\ csv_files \in 0..MaxCsvFiles
    /\ LoaderIdle
    /\ error = "none"
    /\ events = <<"load_to_db">>

SpecLoad == InitLoad /\ [][NextLoad]_vars

-----------------------------------------------------------------------------
(* run_pipeline: run_cleaning, which ends by writing the five cleaned tables,*)
(* then run_validation on the tables written, then load_to_db.  events lists *)
(* the calls run_pipeline has made and its last print.                       *)

\* run_cleaning, lines 60-66, and pipeline.py, line 13: the cleaned tables are
\* written with the columns of the extracts, run_cleaning returns and
\* run_validation is called
WriteCleaned ==
    /\ pc = "write"
    /\ files' = [regions |-> Persisted("regions", regions_clean),
                 products |-> Persisted("products", products_clean),
                 stores |-> Persisted("stores", stores_clean),
                 customers |-> Persisted("customers", customers_clean),
                 orders |-> Persisted("orders", orders_clean)]
    /\ pc' = "run_validation"
    /\ events' = Append(events, "run_validation")
    /\ UNCHANGED <<raw, regions_clean, products_clean, stores_clean, customers_clean,
                   df, orders_clean, tables, vi, all_ok, failures, ran, loader_state,
                   error>>

\* pipeline.py, line 16: run_validation has returned and load_to_db is called
PipelineLoad ==
    /\ pc = "validated"
    /\ pc' = "build_engine"
    /\ events' = Append(events, "load_to_db")
    /\ UNCHANGED <<raw, regions_clean, products_clean, stores_clean, customers_clean,
                   df, orders_clean, validation_state, loader_state, error>>

\* pipeline.py, line 18: load_to_db has returned
PipelineComplete ==
    /\ pc = "loaded"
    /\ pc' = "complete"
    /\ events' = Append(events, "Pipeline complete.")
    /\ UNCHANGED <<raw, regions_clean, products_clean, stores_clean, customers_clean,
                   df, orders_clean, validation_state, loader_state, error>>

NextPipeline ==
    \/ Next
    \/ WriteCleaned
    \/ NextValidate
    \/ PipelineLoad
    \/ NextLoad
    \/ PipelineComplete

MaxPipelineOrders == 2

\* order lines of the raw extract: well formed, with an unknown store, with
\* an unknown product, with a store key without digits, with an unknown
\* customer, with a line number below its floor, with no status
PipelineOrderRows ==
    {GoodOrder(Str(T_ord5), Num(1)),
     Order(Str(T_ORD005), Num(1), Num(2), Num(3), Num(1),
           Str(T_999), Str(T_CUST007), Str(T_P1)),
     Order(Str(T_ord5), Num(2), Num(2), Num(3), Num(1),
           Str(T_S1), Str(T_CUST007), Str(T_2)),
     Order(Str(T_6), Num(1), Num(2), Num(3), Num(1),
           Str(T_abc), Str(T_CUST007), Str(T_P1)),
     Order(Str(T_6), Num(2), Num(2), Num(3), Num(1),
           Str(T_S1), Str(T_c12x34), Str(T_P1)),
     Order(Str(T_6), Num(0), Num(2), Num(3), Num(1),
           Str(T_S1), Str(T_CUST007), Str(T_P1)),
     [GoodOrder(Str(T_999), Num(1)) EXCEPT !.order_status = NaN]}

\* run_pipeline on raw extracts whose order lines and dimension tables vary,
\* under the default MAX_RETRIES and under MAX_RETRIES=0
InitPipeline ==
    /\ pc = "clean_regions"
    /\ regions_clean = <<>>
    /\ products_clean = <<>>
    /\ stores_clean = <<>>
    /\ customers_clean = <<>>
    /\ df = <<>>
    /\ orders_clean = <<>>
    /\ files = <<>>
    /\ ValidationIdle
    /\ max_retries \in {0, MAX_RETRIES}
    /\ csv_files = Len(TableNames)
    /\ LoaderIdle
    /\ error = "none"
    /\ events = <<"run_cleaning">>
    /\ regions = DefaultRegions
    /\ customers = DefaultCustomers
    /\ products \in {DefaultProducts, <<>>}
    /\ stores \in {DefaultStores, <<>>,
                    reset_index(<<Store(Str(T_S1), Str(T_north), Num(0)),
                                  Store(Str(T_999), Str(T_north), Num(9))>>)}
    /\ orders \in Tables(PipelineOrderRows, MaxPipelineOrders)

SpecPipeline == InitPipeline /\ [][NextPipeline]_vars

-----------------------------------------------------------------------------
(* Properties *)

PcOrder == <<"clean_regions", "clean_products", "clean_stores", "clean_customers",
             "clean_orders", "orders_filter", "orders_renumber", "enforce_ri", "write">>
PcIndex(p) == CHOOSE i \in 1..Len(PcOrder) : PcOrder[i] = p
\* control has passed the step that starts at position p
After(p) == PcIndex(pc) > PcIndex(p)

\* clean_orders has just returned: df is the table that entered the
\* renumbering step, orders_clean the table it returned
Returned == pc = "enforce_ri"

KeyPair(r) == <<r.order_code, r.line_number>>
\* row i of the table t is a later occurrence of its (order_code, line_number) pair
LaterOccurrence(t, i) == \E j \in 1..(i - 1) : KeyPair(t[j]) = KeyPair(t[i])
T_ordDash == <<"o", "r", "d", "-">>
\* the integer suffix of a canonical order code "ord-N"
OrderSuffix(c) == StrToInt(SubSeq(c.s, Len(T_ordDash) + 1, Len(c.s)))
OrdCode(n) == Str(T_ordDash \o IntToStr(n))

\* C1: the table returned by clean_orders has no two rows with the same
\* (order_code, line_number) pair, and every row renumbered as a later
\* occurrence carries an order_code that no row of the table entering the step
\* had and that no other renumbered row got.
C1_NoDuplicatePairs ==
    Returned =>
        /\ \A i, j \in 1..Len(orders_clean) :
              i # j => KeyPair(orders_clean[i]) # KeyPair(orders_clean[j])
        /\ \A i \in 1..Len(df) :
              LaterOccurrence(df, i) =>
                 /\ \A j \in 1..Len(df) : orders_clean[i].order_code # df[j].order_code
                 /\ \A j \in 1..Len(df) :
                       (j # i /\ LaterOccurrence(df, j)) =>
                          orders_clean[i].order_code # orders_clean[j].order_code

\* two different pairs each collide, and their later occurrences are given
\* different new order codes
C1_Witness ==
    /\ Returned
    /\ Len(df) = 4
    /\ KeyPair(df[1]) = KeyPair(df[2])
    /\ KeyPair(df[3]) = KeyPair(df[4])
    /\ KeyPair(df[1]) # KeyPair(df[3])
    /\ orders_clean[2].order_code # df[2].order_code
    /\ orders_clean[4].order_code # orders_clean[2].order_code

\* the largest integer suffix among the order codes of t, 0 for the empty table
LargestSuffix(t) ==
    IF Len(t) = 0 THEN 0
    ELSE CHOOSE m \in {OrderSuffix(t[i].order_code) : i \in 1..Len(t)} :
            \A i \in 1..Len(t) : OrderSuffix(t[i].order_code) <= m

\* C2: with max_order_num the largest integer suffix among the order codes of
\* the rows reaching the renumbering step (0 if none), a first occurrence keeps
\* its order_code and the k-th later occurrence in table order, counted across
\* all colliding pairs, gets "ord-" + (max_order_num + k); rows
\* [(ord-5,1),(ord-5,1),(ord-5,1)] become [(ord-5,1),(ord-6,1),(ord-7,1)].
C2_RenumberingDeterministic ==
    Returned =>
        /\ Len(orders_clean) = Len(df)
        /\ \A i \in 1..Len(df) :
              LET k == Cardinality({j \in 1..i : LaterOccurrence(df, j)})
              IN  orders_clean[i].order_code =
                     IF LaterOccurrence(df, i) THEN OrdCode(LargestSuffix(df) + k)
                     ELSE df[i].order_code
        /\ [i \in 1..Len(df) |-> KeyPair(df[i])] = <<<<OrdCode(5), Num(1)>>, <<OrdCode(5), Num(1)>>,
                                                       <<OrdCode(5), Num(1)>>>>
              => [i \in 1..Len(df) |-> KeyPair(orders_clean[i])]
                    = <<<<OrdCode(5), Num(1)>>, <<OrdCode(6), Num(1)>>, <<OrdCode(7), Num(1)>>>>

\* the rows of the example, renumbered from the largest order number left
\* after a row with a larger one was dropped for its missing cost
C2_Witness ==
    /\ Returned
    /\ Len(orders) = 4
    /\ [i \in 1..Len(df) |-> KeyPair(df[i])] = <<<<OrdCode(5), Num(1)>>, <<OrdCode(5), Num(1)>>,
                                                   <<OrdCode(5), Num(1)>>>>
    /\ [i \in 1..Len(df) |-> orders_clean[i].order_code] = <<OrdCode(5), OrdCode(6), OrdCode(7)>>

\* C3: the renumbering step drops no row and changes nothing but the
\* order_code of later occurrences: as many rows leave as enter, every column
\* but order_code (line_number and the index label among them) is unchanged in
\* every row, and a first occurrence is unchanged altogether.
C3_RenumberingFrame ==
    Returned =>
        /\ Len(orders_clean) = Len(df)
        /\ \A i \in 1..Len(df) :
              /\ [orders_clean[i] EXCEPT !.order_code = df[i].order_code] = df[i]
              /\ ~LaterOccurrence(df, i) => orders_clean[i] = df[i]

\* a first occurrence is kept as it is next to a later occurrence whose
\* order_code, and nothing else, changed
C3_Witness ==
    /\ Returned
    /\ \E i, j \in 1..Len(df) :
          /\ i < j
          /\ KeyPair(df[i]) = KeyPair(df[j])
          /\ orders_clean[i] = df[i]
          /\ orders_clean[j] # df[j]
          /\ orders_clean[j].line_number = df[j].line_number

\* run_cleaning has applied its referential filter: orders_clean is the
\* filtered table, df still holds every row that clean_orders kept (the filter
\* reads no column that the renumbering changed)
Filtered == pc = "write"

Retained(label) == \E j \in 1..Len(orders_clean) : orders_clean[j].idx = label
InStores(c) == \E k \in 1..Len(stores_clean) : stores_clean[k].store_code = c
InProducts(c) == \E k \in 1..Len(products_clean) : products_clean[k].product_code = c
InCustomers(c) == \E k \in 1..Len(customers_clean) : customers_clean[k].customer_code = c

\* C5: the referential filter retains an order row if and only if its
\* store_code is "store-0" or a store_code of the cleaned Store table and its
\* product_code is "prd-0" or a product_code of the cleaned Product table; the
\* customer_code has no influence, a "store-0" row passes the store condition
\* whatever the Store table holds, and a "store-999" row absent from Store is
\* dropped.
C5_ReferentialFilter ==
    Filtered =>
        /\ \A i \in 1..Len(df) :
              Retained(df[i].idx) <=>
                 /\ (df[i].store_code = Str(T_store0) \/ InStores(df[i].store_code))
                 /\ (df[i].product_code = Str(T_prd0) \/ InProducts(df[i].product_code))
        /\ \A i, j \in 1..Len(df) :
              (df[i].store_code = df[j].store_code /\ df[i].product_code = df[j].product_code)
                 => (Retained(df[i].idx) <=> Retained(df[j].idx))
        /\ \A i \in 1..Len(df) :
              (df[i].store_code = Str(T_store999) /\ ~InStores(Str(T_store999)))
                 => ~Retained(df[i].idx)

\* a row with the store sentinel and an unknown customer is retained though
\* the Store table holds no "store-0", next to a dropped "store-999" row
C5_Witness ==
    /\ Filtered
    /\ ~InStores(Str(T_store0))
    /\ ~InStores(Str(T_store999))
    /\ \E i \in 1..Len(df) :
          /\ df[i].store_code = Str(T_store0)
          /\ df[i].customer_code # Str(T_cust0)
          /\ ~InCustomers(df[i].customer_code)
          /\ Retained(df[i].idx)
    /\ \E i \in 1..Len(df) : df[i].store_code = Str(T_store999) /\ ~Retained(df[i].idx)

\* clean_orders has put the keys in canonical form and dropped no row yet:
\* row i of df is row i of orders
Normalized == pc = "orders_filter"

AllDigits(s) == \A i \in 1..Len(s) : IsDigit(s[i])
\* d writes, without leading zeros, the number that the digit run writes
SameNumber(run, d) ==
    \E z \in 0..(Len(run) - 1) :
        /\ \A j \in 1..z : run[j] = "0"
        /\ d = SubSeq(run, z + 1, Len(run))
        /\ (Len(d) = 1 \/ d[1] # "0")
\* the digit run run is the first run of decimal digits of text
FirstRun(text, run) ==
    \E lo \in 1..Len(text) : \E hi \in lo..Len(text) :
        /\ run = SubSeq(text, lo, hi)
        /\ AllDigits(run)
        /\ \A j \in 1..(lo - 1) : ~IsDigit(text[j])
        /\ (hi = Len(text) \/ ~IsDigit(text[hi + 1]))
\* key is prefix-N for the N that the first digit run of text writes, N = 0
\* when text has no digit
Canonical(prefix, text, key) ==
    /\ key.t = "str"
    /\ Len(key.s) > Len(prefix) + 1
    /\ SubSeq(key.s, 1, Len(prefix) + 1) = prefix \o <<"-">>
    /\ LET d == SubSeq(key.s, Len(prefix) + 2, Len(key.s))
       IN  IF \E j \in 1..Len(text) : IsDigit(text[j])
           THEN \E lo \in 1..Len(text) : \E hi \in lo..Len(text) :
                   FirstRun(text, SubSeq(text, lo, hi)) /\ SameNumber(SubSeq(text, lo, hi), d)
           ELSE d = <<"0">>

\* the text of a raw key: the text "nan" for a missing one
RawText(c) == IF c.t = "nan" THEN <<"n", "a", "n">> ELSE c.s

\* C6: for every raw key and each prefix (ord, cust, store, prd) the canonical
\* key is prefix + "-" + N, N the integer value of the first run of decimal
\* digits of the raw text written without leading zeros, N = 0 when the text
\* has no digit; "CUST007", "cust-007" and "007" give "cust-7", "abc" "cust-0".
C6_KeyCanonicalization ==
    Normalized =>
        \A i \in 1..Len(orders) :
            /\ Canonical(<<"o", "r", "d">>, RawText(orders[i].order_code), df[i].order_code)
            /\ Canonical(<<"c", "u", "s", "t">>, RawText(orders[i].customer_code),
                         df[i].customer_code)
            /\ Canonical(<<"s", "t", "o", "r", "e">>, RawText(orders[i].store_code),
                         df[i].store_code)
            /\ Canonical(<<"p", "r", "d">>, RawText(orders[i].product_code), df[i].product_code)
            /\ orders[i].customer_code \in {Str(T_CUST007), Str(T_cust007), Str(T_007)}
                  => df[i].customer_code = Str(T_cust7)
            /\ orders[i].customer_code = Str(T_abc) => df[i].customer_code = Str(T_cust0)

\* two spellings of customer 7 have been given the same key, and a key
\* without digits and a missing key the sentinel
C6_Witness ==
    /\ Normalized
    /\ \E i, j \in 1..Len(orders) :
          /\ orders[i].customer_code = Str(T_cust007)
          /\ orders[j].customer_code = Str(T_007)
          /\ df[i].customer_code = Str(T_cust7)
          /\ df[j].customer_code = Str(T_cust7)
          /\ orders[i].product_code = NaN
          /\ df[i].product_code = Str(T_prd0)
          /\ df[i].store_code = Str(T_store0)

\* clean_orders has dropped its invalid rows: df holds the rows that are left,
\* under the index labels they have in orders
RowsFiltered == pc = "orders_renumber"

Dropped(label) == ~\E j \in 1..Len(df) : df[j].idx = label
\* the cell holds a number, as read or after parsing its text
Present(c) == to_numeric(c).t = "num"
Below(c, floor) == Present(c) /\ to_numeric(c).n < floor

\* C8: clean_orders drops a row in its filtering step exactly when unit_cost
\* is missing or unparseable, or one of quantity, unit_price, unit_cost is
\* present and below 0; a row whose quantity or unit_price is missing while
\* unit_cost is present and >= 0 is not dropped by the floor rule.
C8_DropRule ==
    RowsFiltered =>
        \A i \in 1..Len(orders) :
            Dropped(orders[i].idx) <=>
               \/ ~Present(orders[i].unit_cost)
               \/ Below(orders[i].quantity, 0)
               \/ Below(orders[i].unit_price, 0)
               \/ Below(orders[i].unit_cost, 0)

\* C9: every order line of the table that clean_orders returns has
\* quantity >= 0, unit_price >= 0, unit_cost >= 0 and line_number >= 1, so the
\* validator's minimum-value check on the orders table cannot fail on it.
C9_NumericFloors ==
    Returned =>
        /\ \A i \in 1..Len(orders_clean) :
              /\ GreaterEq(orders_clean[i].quantity, 0)
              /\ GreaterEq(orders_clean[i].unit_price, 0)
              /\ GreaterEq(orders_clean[i].unit_cost, 0)
              /\ GreaterEq(orders_clean[i].line_number, 1)
        /\ validate_min_values(orders_clean, OrdersMinValues)

\* the rows of a dimension table that pass its floor, and among them the
\* first of each key: pass is the set of passing positions of the table norm
FirstPassing(norm, col, pass) ==
    {i \in pass : \A j \in pass : j < i => norm[j][col] # norm[i][col]}
\* the table made of the rows of norm at the positions kept, relabelled
Selected(norm, kept) ==
    [r \in 1..Cardinality(kept) |->
        LET i == CHOOSE i \in kept : Cardinality({j \in kept : j <= i}) = r
        IN  [norm[i] EXCEPT !.idx = r - 1]]

PassProducts == {i \in 1..Len(products) : Present(products[i].base_price)
                                            /\ to_numeric(products[i].base_price).n >= 0}
PassStores == {i \in 1..Len(stores) : Present(stores[i].square_feet)
                                        /\ to_numeric(stores[i].square_feet).n >= 1}

\* C10: clean_products keeps the rows whose base_price parses to a number
\* >= 0 and clean_stores those whose square_feet parses to a number >= 1
\* (base_price -5 and square_feet 0 are dropped, square_feet 1 is kept); the
\* floor is applied before duplicate keys are dropped, so each key is
\* represented by its first row that passes the floor.
C10_FloorBeforeDedup ==
    /\ After("clean_products") =>
          /\ products_clean =
                Selected(products_normalized(products),
                         FirstPassing(products_normalized(products), "product_code", PassProducts))
          /\ \A i \in 1..Len(products_clean) : products_clean[i].base_price # Num(-5)
    /\ After("clean_stores") =>
          /\ stores_clean =
                Selected(stores_normalized(stores),
                         FirstPassing(stores_normalized(stores), "store_code", PassStores))
          /\ \A i \in 1..Len(stores_clean) : stores_clean[i].square_feet # Num(0)
          /\ \A i \in 1..Len(stores) :
                (stores[i].square_feet = Num(1) /\ i \in FirstPassing(stores_normalized(stores),
                                                                     "store_code", PassStores))
                   => \E j \in 1..Len(stores_clean) :
                         /\ stores_clean[j].square_feet = Num(1)
                         /\ stores_clean[j].store_code = stores_normalized(stores)[i].store_code

\* the first row of a store key has square_feet 0 and is dropped; the key is
\* represented by its second row, which has square_feet 1
C10_Witness ==
    /\ After("clean_stores")
    /\ Len(stores) >= 2
    /\ stores[1].square_feet = Num(0)
    /\ stores[2].square_feet = Num(1)
    /\ stores_normalized(stores)[1].store_code = stores_normalized(stores)[2].store_code
    /\ Len(stores_clean) >= 1
    /\ stores_clean[1] = [stores_normalized(stores)[2] EXCEPT !.idx = 0]

\* no two rows of t agree on the column col
UniqueOn(t, col) == \A i, j \in 1..Len(t) : i # j => t[i][col] # t[j][col]
\* every row of t is, but for its label, the first row of norm with its key
FirstSeenWins(t, norm, col) ==
    \A i \in 1..Len(t) :
        \E k \in 1..Len(norm) :
            /\ norm[k][col] = t[i][col]
            /\ \A j \in 1..(k - 1) : norm[j][col] # t[i][col]
            /\ [t[i] EXCEPT !.idx = norm[k].idx] = norm[k]

\* C4: after cleaning, each of Region, Product, Store and Customer has no two
\* rows with the same primary business key, and the row retained for a key is
\* the first row with that key in input table order.
C4_DimensionsUnique ==
    After("clean_customers") =>
        /\ UniqueOn(regions_clean, "region_code")
        /\ FirstSeenWins(regions_clean, clean_regions(regions), "region_code")
        /\ UniqueOn(products_clean, "product_code")
        /\ FirstSeenWins(products_clean, products_normalized(products), "product_code")
        /\ UniqueOn(stores_clean, "store_code")
        /\ FirstSeenWins(stores_clean, stores_normalized(stores), "store_code")
        /\ UniqueOn(customers_clean, "customer_code")
        /\ \A i \in 1..Len(customers_clean) :
              \E k \in 1..Len(customers) :
                 /\ standardize_id(customers[k].customer_code, <<"c", "u", "s", "t">>)
                       = customers_clean[i].customer_code
                 /\ \A j \in 1..(k - 1) :
                       standardize_id(customers[j].customer_code, <<"c", "u", "s", "t">>)
                          # customers_clean[i].customer_code
                 /\ customers_clean[i].customer_segment
                       = str_lower_strip(customers[k].customer_segment)

\* C7: each cleaner is idempotent: applied to its own output, clean_regions,
\* clean_stores, clean_products, clean_customers and clean_orders give a table
\* identical to that output; the region-name rule and the key canonicalization
\* are fixed points on their own outputs.
C7_Idempotent ==
    /\ After("clean_regions") => clean_regions(regions_clean) = regions_clean
    /\ After("clean_products") => clean_products(products_clean) = products_clean
    /\ After("clean_stores") => clean_stores(stores_clean) = stores_clean
    /\ After("clean_customers") => clean_customers(customers_clean) = customers_clean
    /\ Returned => clean_orders(orders_clean) = orders_clean

-----------------------------------------------------------------------------
(* load_to_db.main *)

\* C18: under every configured MAX_RETRIES the connectivity check is
\* attempted at most MAX_RETRIES times, ensure_schema and the loads of the
\* files are reached only after an attempt has succeeded, and when every
\* attempt has failed the failure is raised with no schema ensured and no
\* file loaded.
C18_RetryBound ==
    /\ attempt <= max_retries
    /\ (ensured \/ pc \in {"ensure_schema", "list_csvs", "load_csv", "loaded"}
           \/ successful + failed > 0) => connected
    /\ (attempt = max_retries /\ ~connected /\ pc # "connect" /\ pc # "build_engine")
          => (pc = "raised" /\ error = "SQLAlchemyError" /\ ~ensured
              /\ successful + failed = 0)

-----------------------------------------------------------------------------
(* run_validation *)

\* the calls run_validation makes
PerTableChecks ==
    {"validate_schema", "validate_nulls", "validate_dtypes", "validate_allowed_values",
     "validate_min_values", "validate_uniqueness"}
AllChecks ==
    {<<TableNames[n], c>> : n \in 1..Len(TableNames), c \in PerTableChecks}
        \cup {<<"FK", "validate_referential_integrity">>}

\* run_validation has ended, by returning or by raising
Ended == pc \in {"validated", "raised"}

\* the table lacks a required column
LacksColumn(name) == SCHEMAS[name].required_columns \ tables[name].cols # {}

\* two distinct rows of the table agree on every column of the key, whose
\* columns the table has
Clash(name, key) ==
    /\ \A k \in 1..Len(key) : key[k] \in tables[name].cols
    /\ \E i, j \in 1..Len(tables[name].rows) :
          /\ i # j
          /\ \A k \in 1..Len(key) :
                tables[name].rows[i][key[k]] = tables[name].rows[j][key[k]]

DeclaredKeys(name) ==
    {SCHEMAS[name].unique_keys[n] : n \in 1..Len(SCHEMAS[name].unique_keys)}

\* C11: run_validation never short-circuits.  When it ends, each of the six
\* per-table checks has been run on each of the five tables and the
\* cross-table check has been run, whatever the earlier checks returned; the
\* failure signal is raised only then; a table that lacks a required column
\* and has a duplicate key has both failures reported.
C11_NoShortCircuit ==
    /\ (Ended \/ pc = "verdict") => ran = AllChecks
    /\ error = "SystemExit" => ran = AllChecks
    /\ Ended =>
          \A n \in 1..Len(TableNames) :
              LET name == TableNames[n]
              IN  /\ schema_failures(name, tables[name]) \subseteq failures
                  /\ nulls_failures(name, tables[name]) \subseteq failures
                  /\ allowed_failures(name, tables[name]) \subseteq failures
                  /\ min_failures(name, tables[name]) \subseteq failures
                  /\ \A key \in DeclaredKeys(name) :
                        (LacksColumn(name) /\ Clash(name, key)) =>
                            /\ Failure(name, "schema", <<>>) \in failures
                            /\ Failure(name, "unique", key) \in failures

\* the regions table lacks active_flag and repeats a region code: both are
\* reported before the failure signal
C11_Witness ==
    /\ pc = "raised"
    /\ error = "SystemExit"
    /\ "active_flag" \notin tables.regions.cols
    /\ Clash("regions", <<"region_code">>)
    /\ Failure("regions", "schema", <<>>) \in failures
    /\ Failure("regions", "unique", <<"region_code">>) \in failures

\* every check of run_validation returned success
AllPassed ==
    /\ \A n \in 1..Len(TableNames) :
          LET name == TableNames[n]
          IN  /\ validate_schema(name, tables[name])
              /\ validate_nulls(name, tables[name])
              /\ validate_dtypes(name, tables[name])
              /\ validate_allowed_values(name, tables[name])
              /\ validate_min(name, tables[name])
              /\ validate_uniqueness(name, tables[name])
    /\ ~fk_raises(tables)
    /\ validate_referential_integrity(tables)

\* C12: the verdict of run_validation is success (a normal return) exactly
\* when every per-table check on every table and the cross-table check
\* returned success; when a check returned failure, run_validation ends
\* with SystemExit.
C12_Verdict ==
    Ended =>
        /\ pc = "validated" <=> AllPassed
        /\ ~AllPassed => (pc = "raised" /\ error = "SystemExit")

\* the relationship has a dangling reference: a value of the child column
\* that is not missing, is not the sentinel and is in no row of the parent
Dangling(r) ==
    \E i \in 1..Len(tables[r.child].rows) :
        LET v == tables[r.child].rows[i][r.col]
        IN  /\ v.t # "nan"
            /\ v \notin r.sentinel
            /\ \A j \in 1..Len(tables[r.parent].rows) : tables[r.parent].rows[j][r.col] # v

RelationshipSet == {Relationships[n] : n \in 1..Len(Relationships)}

\* validate_referential_integrity has returned
FkReturned == <<"FK", "validate_referential_integrity">> \in ran /\ error # "KeyError"

\* C14: validate_referential_integrity returns success exactly when no
\* orders.store_code, orders.product_code, orders.customer_code (other
\* than missing or the sentinel store-0, prd-0, cust-0) and no non-missing
\* stores.region_name is absent from its parent column; each of the four
\* relationships is evaluated and reported even when an earlier one failed.
C14_ReferentialCheck ==
    FkReturned =>
        /\ validate_referential_integrity(tables) <=> \A r \in RelationshipSet : ~Dangling(r)
        /\ \A r \in RelationshipSet :
              Dangling(r) <=> Failure("FK", r.child, <<r.col>>) \in failures
        /\ (\E r \in RelationshipSet : Dangling(r)) => ~all_ok

\* an order line with the sentinel store and an order line with an unknown
\* store are checked; the first relationship fails and the last one, failing
\* too, is reported as well
C14_Witness ==
    /\ FkReturned
    /\ \E i \in 1..Len(tables.orders.rows) : tables.orders.rows[i].store_code = Str(T_store0)
    /\ Failure("FK", "orders", <<"store_code">>) \in failures
    /\ Failure("FK", "stores", <<"region_name">>) \in failures
    /\ Failure("FK", "orders", <<"customer_code">>) \notin failures

\* validate_uniqueness has been run on the table
UniquenessRan(name) == <<name, "validate_uniqueness">> \in ran

\* C15: validate_uniqueness returns failure exactly when, for some declared
\* key whose columns are all present, two distinct rows agree on every
\* column of the key; a key with an absent column is skipped; every
\* declared key is examined and reported even after one has failed.
C15_Uniqueness ==
    \A n \in 1..Len(TableNames) :
        LET name == TableNames[n]
        IN  UniquenessRan(name) =>
              /\ ~validate_uniqueness(name, tables[name])
                    <=> \E key \in DeclaredKeys(name) : Clash(name, key)
              /\ \A key \in DeclaredKeys(name) :
                    Clash(name, key) <=> Failure(name, "unique", key) \in failures
              /\ (\E key \in DeclaredKeys(name) : Clash(name, key)) => ~all_ok

\* both keys of regions have duplicates and both are reported
C15_Witness ==
    /\ UniquenessRan("regions")
    /\ Clash("regions", <<"region_code">>)
    /\ Clash("regions", <<"region_name">>)
    /\ Failure("regions", "unique", <<"region_code">>) \in failures
    /\ Failure("regions", "unique", <<"region_name">>) \in failures

-----------------------------------------------------------------------------
(* run_pipeline *)

PipelineCalls == <<"run_cleaning", "run_validation", "load_to_db", "Pipeline complete.">>

\* load_to_db.main has done something
LoaderActed ==
    \/ attempt > 0 \/ connected \/ ensured \/ pending > 0 \/ successful + failed > 0
    \/ pc \in {"build_engine", "connect", "ensure_schema", "list_csvs", "load_csv",
                "loaded", "complete"}

\* C13: run_pipeline calls run_cleaning, run_validation and load_to_db in
\* that order; load_to_db is called only when run_validation has returned
\* success; when run_validation raises, load_to_db is never called and
\* "Pipeline complete." is never printed.
C13_LoadOnlyAfterValidation ==
    /\ events = SubSeq(PipelineCalls, 1, Len(events))
    /\ (Len(events) >= 3 \/ LoaderActed) =>
          (all_ok /\ AllPassed /\ ran = AllChecks /\ error \notin {"SystemExit", "KeyError"})
    /\ error \in {"SystemExit", "KeyError"} =>
          (pc = "raised" /\ Len(events) = 2 /\ ~LoaderActed)

\* validation has failed on the cleaned tables: the run has ended with
\* SystemExit, load_to_db not called
C13_Witness ==
    /\ pc = "raised"
    /\ error = "SystemExit"
    /\ events = <<"run_cleaning", "run_validation">>
    /\ failures # {}
    /\ ~LoaderActed

\* the cleaned tables as run_cleaning holds them when it writes
Cleaned ==
    [regions |-> regions_clean, products |-> products_clean, stores |-> stores_clean,
     customers |-> customers_clean, orders |-> orders_clean]

\* run_validation has loaded the tables run_cleaning wrote
Reloaded == events # <<>> /\ events[1] = "run_cleaning" /\ tables # <<>>

\* the value a cleaned cell has under the type the schema declares for its
\* column: a number for the numeric columns, a text for the string columns
Coerced(name, col, c) ==
    IF col \in SCHEMAS[name].ints \cup SCHEMAS[name].floats THEN to_numeric(c)
    ELSE IF c.t = "num" THEN Str(IntToStr(c.n))
    ELSE c

\* C16: every cell of a cleaned table written by run_cleaning and re-loaded
\* by load_table has the same logical value, up to the declared type
\* coercion; a text that was not missing is not re-loaded as missing.
C16_RoundTrip ==
    Reloaded =>
        \A n \in 1..Len(TableNames) :
            LET name == TableNames[n]
            IN  /\ Len(tables[name].rows) = Len(Cleaned[name])
                /\ \A i \in 1..Len(Cleaned[name]) : \A col \in Carried[name] :
                      tables[name].rows[i][col] = Coerced(name, col, Cleaned[name][i][col])

\* C17: the orders, stores and products tables run_cleaning produces make
\* the validator's orders-to-stores and orders-to-products checks succeed
\* and keep (order_code, line_number) unique, for every raw input.
C17_StagesAgree ==
    /\ Reloaded =>
          /\ missing_values(tables, Relationships[1]) = {}
          /\ missing_values(tables, Relationships[3]) = {}
          /\ ~Clash("orders", <<"order_code", "line_number">>)
    /\ Failure("FK", "orders", <<"store_code">>) \notin failures
    /\ Failure("FK", "orders", <<"product_code">>) \notin failures
    /\ Failure("orders", "unique", <<"order_code", "line_number">>) \notin failures

\* order lines were dropped by the referential filter, others were kept, and
\* the validator's cross-table check has run on what was written
C17_Witness ==
    /\ Reloaded
    /\ FkReturned
    /\ Len(orders) = 2
    /\ Len(df) = 2
    /\ Len(tables.orders.rows) = 1

====
